---- MODULE Spec2Model ----
(***************************************************************************)
(* Model of src/leaps_scanner.py: the weekly RSI LEAPS scanner.            *)
(*                                                                         *)
(* Units.  Clock readings (datetime.now()) are whole ticks, TicksPerDay    *)
(* ticks to the day, counted from midnight of 1 January of Epoch.year.     *)
(* Prices and strikes are in cents, RSI values in hundredths of a point    *)
(* (calculate_weekly_rsi rounds both to two decimals).                     *)
(***************************************************************************)
EXTENDS Integers, Sequences, FiniteSets

VARIABLES
    watchlist,       \* the configured WATCHLIST
    now,             \* the wall clock, as datetime.now() reads it
    file,            \* leaps_alert_history.json on disk
    pc,              \* position of the run_scanner process
    i,               \* loop index of run_scanner over WATCHLIST (1-based)
    alert_history,   \* run_scanner's local dict
    results,         \* run_scanner's local list
    alerts_to_send,  \* run_scanner's local list
    fetched,         \* history variable: what calculate_weekly_rsi returned, per iteration
    report,          \* the summary run_scanner prints (the two sorted lists)
    delivery,        \* SMTP attempts of this scan and the outcome of the last
    episode,         \* history variable: per ticker, the last time it entered an alert set
    call,            \* arguments of a direct call of a pure function
    ret              \* its return value, <<>> before the call

vars == <<watchlist, now, file, pc, i, alert_history, results, alerts_to_send,
          fetched, report, delivery, episode, call, ret>>

----------------------------------------------------------------------------
(* Configuration                                                           *)

RSI_THRESHOLD == 30
MIN_DTE == 360
OTM_PERCENT == 10
APPROACHING_UPPER == 35
RECOVERY_THRESHOLD == 40
REALERT_COOLDOWN_DAYS == 7

\* Short watchlists stand for the 69 tickers of the source.
WATCHLIST == <<"AAPL", "MSFT", "GOOGL">>

ShortWatchlist == SubSeq(WATCHLIST, 1, 2)

\* A ticker that is in the ledger file but no longer on the watchlist.
OffList == "XYZ"

WatchSet == {watchlist[k] : k \in 1..Len(watchlist)}
AllTickers == WatchSet \cup {OffList}

\* Clock resolution of the model: half days.
TicksPerDay == 2

\* Bounds
MaxTime == 14
MaxRefTick == 1500
MaxPrice == 260

\* RSI is in hundredths of a point.
Pts(x) == x * 100

----------------------------------------------------------------------------
(* Python arithmetic                                                       *)

\* round(n / d) for an exact quotient, d > 0: nearest integer, ties to even.
RoundHalfEven(n, d) ==
    LET q == n \div d
        r == n % d
    IN  IF 2 * r > d \/ (2 * r = d /\ q % 2 = 1) THEN q + 1 ELSE q

\* Prices (cents) at which price * 1.1 is an exact tie but the float product
\* lands just above it, so that round() goes up where ties-to-even goes down.
FloatTieUp == {5500, 9500, 11500, 17500, 19500, 21500}

\* round(current_price * (1 + OTM_PERCENT / 100)), in dollars.
RoundOtm(price) ==
    IF price \in FloatTieUp
    THEN (price * (100 + OTM_PERCENT)) \div 10000 + 1
    ELSE RoundHalfEven(price * (100 + OTM_PERCENT), 10000)

\* timedelta.days of a difference of two clock readings: floor division.
TimedeltaDays(diff) == diff \div TicksPerDay

\* datetime.isoformat(): the date part and the time-of-day part.
isoformat(t) == <<t \div TicksPerDay, t % TicksPerDay>>

\* datetime.fromisoformat()
fromisoformat(s) == s[1] * TicksPerDay + s[2]

----------------------------------------------------------------------------
(* Calendar (datetime + timedelta, .year, .month)                          *)

Epoch == [year |-> 2024, month |-> 1, day |-> 1]

IsLeap(y) == (y % 4 = 0 /\ y % 100 # 0) \/ y % 400 = 0

DaysInYear(y) == IF IsLeap(y) THEN 366 ELSE 365

DaysInMonth(y, m) ==
    IF m = 2 THEN (IF IsLeap(y) THEN 29 ELSE 28)
    ELSE IF m \in {4, 6, 9, 11} THEN 30 ELSE 31

RECURSIVE YearFrom(_, _)
\* The year holding the day that lies d days after 1 January of y, d >= 0.
YearFrom(y, d) ==
    IF d < DaysInYear(y) THEN [year |-> y, doy |-> d]
    ELSE YearFrom(y + 1, d - DaysInYear(y))

RECURSIVE MonthFrom(_, _, _)
MonthFrom(y, m, d) ==
    IF d < DaysInMonth(y, m) THEN [year |-> y, month |-> m, day |-> d + 1]
    ELSE MonthFrom(y, m + 1, d - DaysInMonth(y, m))

\* The calendar date of a clock reading.
DateOf(t) ==
    LET yd == YearFrom(Epoch.year, t \div TicksPerDay)
    IN  MonthFrom(yd.year, 1, yd.doy)

----------------------------------------------------------------------------
(* get_options_suggestion                                                  *)

\* A plausible slip: the 2.5 grid divisor used with the 5 grid multiplier.
SnapStrike_mixed(strike) ==
    IF strike > 5000 THEN RoundHalfEven(strike, 250) * 500
    ELSE IF strike > 1000 THEN RoundHalfEven(strike, 250) * 250
    ELSE strike

\* Lines 158-161: the snap rule, on a strike in cents.
SnapStrike(strike) ==
    IF strike > 5000 THEN RoundHalfEven(strike, 500) * 500
    ELSE IF strike > 1000 THEN RoundHalfEven(strike, 250) * 250
    ELSE strike

\* Lines 163-168: the expiry label ("January", year) of the target date.
ExpiryLabel(target) ==
    IF target.month <= 6 THEN <<"January", target.year + 1>>
    ELSE <<"January", target.year + 1>>

get_options_suggestion(ticker, current_price, clock) ==
    LET otm_strike == RoundOtm(current_price) * 100
        target_expiry == DateOf(clock + MIN_DTE * TicksPerDay)
    IN  [strike |-> SnapStrike(otm_strike),
         min_expiry |-> target_expiry,
         expiry_suggestion |-> ExpiryLabel(target_expiry),
         exit_half_at |-> "100% gain (2x entry price)",
         exit_rest_at |-> "60 DTE remaining",
         options_chain_url |-> <<"https://finance.yahoo.com/quote/", ticker, "/options/">>]

----------------------------------------------------------------------------
(* should_alert                                                            *)

\* A plausible slip: the cooldown compared with <= instead of <.
should_alert_le(ticker, history, clock) ==
    IF ticker \notin DOMAIN history THEN TRUE
    ELSE LET last_alert_date == fromisoformat(history[ticker].date)
         IN  IF TimedeltaDays(clock - last_alert_date) <= REALERT_COOLDOWN_DAYS
             THEN FALSE ELSE TRUE

\* A plausible slip: the cooldown one day short.
should_alert_early(ticker, history, clock) ==
    IF ticker \notin DOMAIN history THEN TRUE
    ELSE LET last_alert_date == fromisoformat(history[ticker].date)
         IN  IF TimedeltaDays(clock - last_alert_date) < REALERT_COOLDOWN_DAYS - 1
             THEN FALSE ELSE TRUE

should_alert(ticker, history, clock) ==
    IF ticker \notin DOMAIN history THEN TRUE
    ELSE LET last_alert_date == fromisoformat(history[ticker].date)
         IN  IF TimedeltaDays(clock - last_alert_date) < REALERT_COOLDOWN_DAYS
             THEN FALSE ELSE TRUE

----------------------------------------------------------------------------
(* Dicts and lists                                                         *)

EmptyDict == [t \in {} |-> <<>>]

\* d[k] = v
DictSet(d, k, v) == [t \in DOMAIN d \cup {k} |-> IF t = k THEN v ELSE d[t]]

\* del d[k]
DictDel(d, k) == [t \in DOMAIN d \ {k} |-> d[t]]

RECURSIVE InsertByRsi(_, _)
\* s is sorted; x goes behind every element whose key is not greater (stable).
InsertByRsi(s, x) ==
    IF s = <<>> THEN <<x>>
    ELSE IF s[Len(s)].weekly_rsi <= x.weekly_rsi THEN Append(s, x)
    ELSE Append(InsertByRsi(SubSeq(s, 1, Len(s) - 1), x), s[Len(s)])

RECURSIVE SortedByRsi(_)
\* sorted(s, key=lambda x: x["weekly_rsi"])
SortedByRsi(s) ==
    IF s = <<>> THEN <<>>
    ELSE InsertByRsi(SortedByRsi(SubSeq(s, 1, Len(s) - 1)), s[Len(s)])

----------------------------------------------------------------------------
(* calculate_weekly_rsi: the market data and the RSI arithmetic are the     *)
(* environment; the call returns None (<<>>) or one dict (<<d>>).           *)

\* Quotes (weekly_rsi, price) of the multi-scan specification.
Quotes ==
    {[weekly_rsi |-> 2500, price |-> 6000],
     [weekly_rsi |-> 4000, price |-> 7000],
     [weekly_rsi |-> 4001, price |-> 7500]}

\* Quotes of the single-scan specification: every threshold from both sides.
ThresholdQuotes ==
    {[weekly_rsi |-> 2500, price |-> 6000],
     [weekly_rsi |-> 2999, price |-> 4500],
     [weekly_rsi |-> 3000, price |-> 4600],
     [weekly_rsi |-> 3499, price |-> 900],
     [weekly_rsi |-> 3500, price |-> 12000],
     [weekly_rsi |-> 4001, price |-> 7500]}

calculate_weekly_rsi(ticker, quotes) ==
    {<<>>} \cup
    {<<[ticker |-> ticker, price |-> q.price, weekly_rsi |-> q.weekly_rsi]>> : q \in quotes}

----------------------------------------------------------------------------
(* run_scanner                                                             *)

\* A plausible slip: the recovery reset is left out.
LoopBody_norecover(st, ticker, data, clock) ==
    IF data = <<>> THEN st
    ELSE
      LET d == data[1]
          fire == /\ d.weekly_rsi < Pts(RSI_THRESHOLD)
                  /\ should_alert(ticker, st.alert_history, clock)
          a1 == IF fire
                THEN Append(st.alerts_to_send,
                            [stock |-> d,
                             options |-> get_options_suggestion(ticker, d.price, clock)])
                ELSE st.alerts_to_send
          h1 == IF fire
                THEN DictSet(st.alert_history, ticker,
                             [date |-> isoformat(clock),
                              rsi |-> d.weekly_rsi,
                              price |-> d.price])
                ELSE st.alert_history
          h2 == h1
      IN  [alert_history |-> h2,
           results |-> Append(st.results, d),
           alerts_to_send |-> a1]


\* A plausible slip: missing data is read as a quote of zero instead of skipped.
LoopBody_zero(st, ticker, data, clock) ==
    LET d == IF data = <<>>
               THEN [ticker |-> ticker, price |-> 0, weekly_rsi |-> 0]
               ELSE data[1]
          fire == /\ d.weekly_rsi < Pts(RSI_THRESHOLD)
                  /\ should_alert(ticker, st.alert_history, clock)
          a1 == IF fire
                THEN Append(st.alerts_to_send,
                            [stock |-> d,
                             options |-> get_options_suggestion(ticker, d.price, clock)])
                ELSE st.alerts_to_send
          h1 == IF fire
                THEN DictSet(st.alert_history, ticker,
                             [date |-> isoformat(clock),
                              rsi |-> d.weekly_rsi,
                              price |-> d.price])
                ELSE st.alert_history
          h2 == IF d.weekly_rsi > Pts(RECOVERY_THRESHOLD) /\ ticker \in DOMAIN h1
                THEN DictDel(h1, ticker)
                ELSE h1
      IN  [alert_history |-> h2,
           results |-> Append(st.results, d),
           alerts_to_send |-> a1]


\* A plausible slip: the recovery reset at >= 40 instead of > 40.
LoopBody_ge40(st, ticker, data, clock) ==
    IF data = <<>> THEN st
    ELSE
      LET d == data[1]
          fire == /\ d.weekly_rsi < Pts(RSI_THRESHOLD)
                  /\ should_alert(ticker, st.alert_history, clock)
          a1 == IF fire
                THEN Append(st.alerts_to_send,
                            [stock |-> d,
                             options |-> get_options_suggestion(ticker, d.price, clock)])
                ELSE st.alerts_to_send
          h1 == IF fire
                THEN DictSet(st.alert_history, ticker,
                             [date |-> isoformat(clock),
                              rsi |-> d.weekly_rsi,
                              price |-> d.price])
                ELSE st.alert_history
          h2 == IF d.weekly_rsi >= Pts(RECOVERY_THRESHOLD) /\ ticker \in DOMAIN h1
                THEN DictDel(h1, ticker)
                ELSE h1
      IN  [alert_history |-> h2,
           results |-> Append(st.results, d),
           alerts_to_send |-> a1]


\* Lines 350-378: one iteration of the loop over WATCHLIST, on the locals
\* st = [alert_history, results, alerts_to_send].
LoopBody(st, ticker, data, clock) ==
    IF data = <<>> THEN st
    ELSE
      LET d == data[1]
          fire == /\ d.weekly_rsi < Pts(RSI_THRESHOLD)
                  /\ should_alert(ticker, st.alert_history, clock)
          a1 == IF fire
                THEN Append(st.alerts_to_send,
                            [stock |-> d,
                             options |-> get_options_suggestion(ticker, d.price, clock)])
                ELSE st.alerts_to_send
          h1 == IF fire
                THEN DictSet(st.alert_history, ticker,
                             [date |-> isoformat(clock),
                              rsi |-> d.weekly_rsi,
                              price |-> d.price])
                ELSE st.alert_history
          h2 == IF d.weekly_rsi > Pts(RECOVERY_THRESHOLD) /\ ticker \in DOMAIN h1
                THEN DictDel(h1, ticker)
                ELSE h1
      IN  [alert_history |-> h2,
           results |-> Append(st.results, d),
           alerts_to_send |-> a1]

RECURSIVE RunLoop(_, _, _, _)
\* Lines 348-378: the whole loop over a watchlist wl, data[t] being what
\* calculate_weekly_rsi returns for t.
RunLoop(st, wl, data, clock) ==
    IF wl = <<>> THEN st
    ELSE RunLoop(LoopBody(st, Head(wl), data[Head(wl)], clock), Tail(wl), data, clock)

Locals == [alert_history |-> alert_history,
           results |-> results,
           alerts_to_send |-> alerts_to_send]

\* Per ticker: when it last entered an alert set (at), whether the scan that
\* put it there went on to save the ledger (saved), and whether a scan has
\* seen its RSI above the recovery threshold since (recovered).
FreshEpisode == [at |-> {}, saved |-> FALSE, recovered |-> FALSE]

NoReport == [oversold |-> <<>>, approaching |-> <<>>,
             printed_oversold |-> <<>>, printed_approaching |-> <<>>]

NoDelivery == [attempts |-> 0, outcome |-> "none"]

\* An exception leaves run_scanner: the process dies and its locals with it.
Crashed ==
    /\ pc' = "crashed"
    /\ i' = 1
    /\ alert_history' = EmptyDict
    /\ results' = <<>>
    /\ alerts_to_send' = <<>>
    /\ fetched' = <<>>

\* Lines 182-187: json.load of a file cut short raises; a missing file is {}.
load_alert_history(f) == f.data

\* Lines 337-346: a new process starts a scan.  The load raises on a file that
\* is not JSON, and may raise on any file (the open or the read fails).
StartScan ==
    /\ pc = "idle"
    /\ \/ /\ file.state = "ok"
          /\ alert_history' = load_alert_history(file)
          /\ pc' = "loop"
          /\ UNCHANGED <<i, results, alerts_to_send, fetched>>
       \/ Crashed
    /\ UNCHANGED <<watchlist, now, file, report, delivery, episode, call, ret>>

\* The history variable after one iteration.
EpisodeAfter(ticker, data, fired, clock) ==
    [t \in DOMAIN episode |->
        IF t # ticker \/ data = <<>> THEN episode[t]
        ELSE IF fired THEN [at |-> {clock}, saved |-> FALSE, recovered |-> FALSE]
        ELSE IF data[1].weekly_rsi > Pts(RECOVERY_THRESHOLD)
             THEN [episode[t] EXCEPT !.recovered = TRUE]
        ELSE episode[t]]

\* Lines 348-378: the iteration for WATCHLIST[i], with what the data call returned.
ScanTicker(data) ==
    /\ pc = "loop"
    /\ LET ticker == watchlist[i]
           st == LoopBody(Locals, ticker, data, now)
       IN  /\ alert_history' = st.alert_history
           /\ results' = st.results
           /\ alerts_to_send' = st.alerts_to_send
           /\ episode' = EpisodeAfter(ticker, data,
                            Len(st.alerts_to_send) > Len(alerts_to_send), now)
    /\ fetched' = Append(fetched, data)
    /\ i' = i + 1
    /\ pc' = IF i = Len(watchlist) THEN "save" ELSE "loop"
    /\ UNCHANGED <<watchlist, now, file, report, delivery, call, ret>>

ScanStep(quotes) ==
    /\ pc = "loop"
    /\ \E data \in calculate_weekly_rsi(watchlist[i], quotes) : ScanTicker(data)

AlertedTickers == {alerts_to_send[k].stock.ticker : k \in 1..Len(alerts_to_send)}

\* Lines 190-193 as called at line 381.  open(..., "w") may raise (the file
\* stays as it was), json.dump may raise after the truncation (the file is
\* left cut short); neither is caught.
SaveAlertHistory ==
    /\ pc = "save"
    /\ \/ /\ file' = [state |-> "ok", data |-> alert_history]
          /\ pc' = "summary"
          /\ episode' = [t \in DOMAIN episode |->
                            IF t \in AlertedTickers
                            THEN [episode[t] EXCEPT !.saved = TRUE]
                            ELSE episode[t]]
          /\ UNCHANGED <<i, alert_history, results, alerts_to_send, fetched>>
       \/ /\ file' = file
          /\ episode' = episode
          /\ Crashed
       \/ /\ file' = [state |-> "corrupt", data |-> EmptyDict]
          /\ episode' = episode
          /\ Crashed
    /\ UNCHANGED <<watchlist, now, report, delivery, call, ret>>

\* A plausible slip: the oversold test with <= instead of <.
OversoldOf_le(rs) == SelectSeq(rs, LAMBDA r : r.weekly_rsi <= Pts(RSI_THRESHOLD))

\* Lines 385-386
OversoldOf(rs) == SelectSeq(rs, LAMBDA r : r.weekly_rsi < Pts(RSI_THRESHOLD))

ApproachingOf(rs) ==
    SelectSeq(rs, LAMBDA r : /\ Pts(RSI_THRESHOLD) <= r.weekly_rsi
                             /\ r.weekly_rsi < Pts(APPROACHING_UPPER))

\* Lines 390 and 399: the order the two lists are printed in.
PrintOrder(list) == SortedByRsi(list)

\* Lines 383-401
Summary ==
    /\ pc = "summary"
    /\ LET oversold == OversoldOf(results)
           approaching == ApproachingOf(results)
       IN  report' = [oversold |-> oversold,
                      approaching |-> approaching,
                      printed_oversold |-> PrintOrder(oversold),
                      printed_approaching |-> PrintOrder(approaching)]
    /\ pc' = "send"
    /\ UNCHANGED <<watchlist, now, file, i, alert_history, results, alerts_to_send,
                   fetched, delivery, episode, call, ret>>

\* A plausible slip: a failed delivery resets the ledger, to retry next scan.
SmtpAttempt_rollback(f, outcome) ==
    [file |-> IF outcome = "failed" THEN [state |-> "ok", data |-> EmptyDict] ELSE f,
     delivery |-> [attempts |-> 1, outcome |-> outcome]]

\* Lines 318-330: what the one SMTP attempt of send_email_alert leaves behind;
\* the exception of a failed attempt is caught there.
SmtpAttempt(f, outcome) ==
    [file |-> f, delivery |-> [attempts |-> 1, outcome |-> outcome]]

\* Lines 403-412, with send_email_alert (lines 214-330).
SendAlerts ==
    /\ pc = "send"
    /\ IF alerts_to_send # <<>>
       THEN \E outcome \in {"sent", "failed"} :
              LET after == SmtpAttempt(file, outcome)
              IN  /\ file' = after.file
                  /\ delivery' = after.delivery
       ELSE /\ file' = file
            /\ delivery' = NoDelivery
    /\ pc' = "done"
    /\ UNCHANGED <<watchlist, now, i, alert_history, results, alerts_to_send,
                   fetched, report, episode, call, ret>>

\* Line 416: run_scanner has returned, or its exception has ended the
\* process; the locals are gone.
ProcessExit ==
    /\ pc \in {"done", "crashed"}
    /\ pc' = "idle"
    /\ i' = 1
    /\ alert_history' = EmptyDict
    /\ results' = <<>>
    /\ alerts_to_send' = <<>>
    /\ fetched' = <<>>
    /\ report' = NoReport
    /\ delivery' = NoDelivery
    /\ UNCHANGED <<watchlist, now, file, episode, call, ret>>

\* Time passes between the scheduled runs.  A scan takes minutes and a tick
\* is half a day: every datetime.now() of one scan reads the same tick.
Tick ==
    /\ pc = "idle"
    /\ now < MaxTime
    /\ now' = now + 1
    /\ UNCHANGED <<watchlist, file, pc, i, alert_history, results, alerts_to_send,
                   fetched, report,
                   delivery, episode, call, ret>>

----------------------------------------------------------------------------
(* Specification of repeated scans                                         *)

\* The ledger file starts with one record, left by an earlier watchlist.
OffListRecord == [date |-> isoformat(0), rsi |-> 2500, price |-> 6000]

Init ==
    /\ watchlist = ShortWatchlist
    /\ now = 0
    /\ file = [state |-> "ok", data |-> DictSet(EmptyDict, OffList, OffListRecord)]
    /\ pc = "idle"
    /\ i = 1
    /\ alert_history = EmptyDict
    /\ results = <<>>
    /\ alerts_to_send = <<>>
    /\ fetched = <<>>
    /\ report = NoReport
    /\ delivery = NoDelivery
    /\ episode = [t \in WatchSet |-> FreshEpisode]
    /\ call = <<>>
    /\ ret = <<>>

Next ==
    \/ StartScan
    \/ ScanStep(Quotes)
    \/ SaveAlertHistory
    \/ Summary
    \/ SendAlerts
    \/ ProcessExit
    \/ Tick

Spec == Init /\ [][Next]_vars

----------------------------------------------------------------------------
(* Specification of a single scan, at every threshold                      *)

\* Ledgers a scan can find: per ticker no record, a record whose cooldown
\* has just run out (7 days old), or one half a day short of that.
LedgerDates == {0, 1}

PreparedLedgers ==
    LET tickers == {WATCHLIST[1], WATCHLIST[2]}
    IN  UNION {[have -> [date : {isoformat(d) : d \in LedgerDates},
                         rsi : {2500}, price : {6000}]] : have \in SUBSET tickers}

ScanInit ==
    /\ watchlist = WATCHLIST
    /\ now = REALERT_COOLDOWN_DAYS * TicksPerDay
    /\ \E ledger \in PreparedLedgers :
          /\ file = [state |-> "ok", data |-> ledger]
          /\ episode = [t \in WatchSet |->
                          IF t \in DOMAIN ledger
                          THEN [at |-> {fromisoformat(ledger[t].date)},
                                saved |-> TRUE, recovered |-> FALSE]
                          ELSE FreshEpisode]
    /\ pc = "idle"
    /\ i = 1
    /\ alert_history = EmptyDict
    /\ results = <<>>
    /\ alerts_to_send = <<>>
    /\ fetched = <<>>
    /\ report = NoReport
    /\ delivery = NoDelivery
    /\ call = <<>>
    /\ ret = <<>>

ScanNext ==
    \/ StartScan
    \/ ScanStep(ThresholdQuotes)
    \/ SaveAlertHistory
    \/ Summary
    \/ SendAlerts

SpecScan == ScanInit /\ [][ScanNext]_vars

----------------------------------------------------------------------------
(* Specification of direct calls of should_alert                           *)

CallerState ==
    /\ watchlist = ShortWatchlist
    /\ file = [state |-> "ok", data |-> EmptyDict]
    /\ i = 1
    /\ results = <<>>
    /\ alerts_to_send = <<>>
    /\ fetched = <<>>
    /\ report = NoReport
    /\ delivery = NoDelivery
    /\ episode = [t \in WatchSet |-> FreshEpisode]
    /\ ret = <<>>

Histories ==
    {EmptyDict} \cup
    {DictSet(EmptyDict, WATCHLIST[1],
             [date |-> isoformat(d), rsi |-> 2500, price |-> 6000]) : d \in 0..MaxTime}

ShouldAlertInit ==
    /\ CallerState
    /\ pc = "call"
    /\ now \in 0..(MaxTime + TicksPerDay)
    /\ alert_history \in Histories
    /\ \E ticker \in {WATCHLIST[1], WATCHLIST[2]} :
          call = [ticker |-> ticker, history |-> alert_history]

\* should_alert(ticker, history): reads history and the clock, returns a bool.
CallShouldAlert ==
    /\ pc = "call"
    /\ ret' = <<should_alert(call.ticker, alert_history, now)>>
    /\ pc' = "returned"
    /\ UNCHANGED <<watchlist, now, file, i, alert_history, results, alerts_to_send,
                   fetched, report, delivery, episode, call>>

ShouldAlertNext == CallShouldAlert

SpecShouldAlert == ShouldAlertInit /\ [][ShouldAlertNext]_vars

----------------------------------------------------------------------------
(* Specification of direct calls of get_options_suggestion                 *)

\* Reference dates over two years, and prices in steps of half a dollar.
OptionsInit ==
    /\ CallerState
    /\ pc = "call"
    /\ alert_history = EmptyDict
    /\ \/ /\ now \in 0..MaxRefTick
          /\ call = [ticker |-> WATCHLIST[1], price |-> 6000]
       \/ /\ now = 0
          /\ \E k \in 1..MaxPrice : call = [ticker |-> WATCHLIST[1], price |-> k * 50]

CallGetOptionsSuggestion ==
    /\ pc = "call"
    /\ ret' = <<get_options_suggestion(call.ticker, call.price, now)>>
    /\ pc' = "returned"
    /\ UNCHANGED <<watchlist, now, file, i, alert_history, results, alerts_to_send,
                   fetched, report, delivery, episode, call>>

OptionsNext == CallGetOptionsSuggestion

SpecOptions == OptionsInit /\ [][OptionsNext]_vars

----------------------------------------------------------------------------
(* Properties                                                              *)

CooldownTicks == REALERT_COOLDOWN_DAYS * TicksPerDay

InSeq(x, seq) == \E k \in 1..Len(seq) : seq[k] = x

\* This step puts ticker t into the alert set.
AlertedNow(t) ==
    /\ Len(alerts_to_send') = Len(alerts_to_send) + 1
    /\ alerts_to_send'[Len(alerts_to_send')].stock.ticker = t

RecoveredTickers ==
    {watchlist[k] : k \in {j \in 1..Len(fetched) :
        fetched[j] # <<>> /\ fetched[j][1].weekly_rsi > 4000}}

\* C3: a ticker seen with RSI above 40 has no record in the scan's ledger
\* from then on, nor in the file once the scan has saved it.
C3_RecoveryClearsRecord ==
    \A t \in RecoveredTickers :
        /\ t \notin DOMAIN alert_history
        /\ pc \in {"summary", "send", "done"} => t \notin DOMAIN file.data

\* A ticker whose saved record is cleared by a scan that sees RSI 40.01.
C3_Witness ==
    /\ pc = "done"
    /\ \E t \in RecoveredTickers :
          /\ episode[t].at # {}
          /\ episode[t].saved
          /\ t \notin DOMAIN file.data

\* C4: when a scan ends, whatever the outcome of the delivery, the file holds
\* the ledger the scan computed, with the record of every alerted ticker, and
\* delivery was attempted once if there were alerts and not at all otherwise.
C4_LedgerCommitsRegardlessOfDelivery ==
    pc = "done" =>
        /\ file = [state |-> "ok", data |-> alert_history]
        /\ \A t \in AlertedTickers :
              /\ t \in DOMAIN file.data
              /\ file.data[t].date = isoformat(now)
        /\ delivery.attempts = (IF alerts_to_send = <<>> THEN 0 ELSE 1)

\* A scan whose delivery failed, with the alerted ticker's record on file.
C4_Witness ==
    /\ pc = "done"
    /\ delivery.outcome = "failed"
    /\ \E t \in AlertedTickers : file.data[t].date = isoformat(now)

\* C5, as claimed: no exception escapes run_scanner.
C5_NoExceptionEscapes == pc # "crashed"

\* C6: when the loop is over every ticker has been visited, and the results
\* and the alert set (hence the two partitions) are those of the same loop
\* run over the watchlist without the tickers whose data was missing.
C6_FailingTickersAreSkipped ==
    pc = "save" =>
        LET failing == {watchlist[k] : k \in {j \in 1..Len(fetched) : fetched[j] = <<>>}}
            remaining == SelectSeq(watchlist, LAMBDA t : t \notin failing)
            data == [t \in WatchSet |->
                        fetched[CHOOSE k \in 1..Len(watchlist) : watchlist[k] = t]]
            ref == RunLoop([alert_history |-> file.data,
                            results |-> <<>>,
                            alerts_to_send |-> <<>>],
                           remaining, data, now)
        IN  /\ Len(fetched) = Len(watchlist)
            /\ results = ref.results
            /\ alerts_to_send = ref.alerts_to_send
            /\ OversoldOf(results) = OversoldOf(ref.results)
            /\ ApproachingOf(results) = ApproachingOf(ref.results)

\* The first ticker has no data, a later one is alerted.
C6_Witness ==
    /\ pc = "save"
    /\ fetched[1] = <<>>
    /\ Len(results) = Len(watchlist) - 1
    /\ alerts_to_send # <<>>

Ascending(seq) ==
    \A j, k \in 1..Len(seq) : j < k => seq[j].weekly_rsi <= seq[k].weekly_rsi

SameElements(a, b) ==
    /\ Len(a) = Len(b)
    /\ \A k \in 1..Len(a) : InSeq(a[k], b) /\ InSeq(b[k], a)

NoDuplicates(seq) == \A j, k \in 1..Len(seq) : seq[j] = seq[k] => j = k

\* C7: after the summary the oversold list holds exactly the results with
\* RSI < 30 and the approaching list exactly those with 30 <= RSI < 35, the
\* two are disjoint, and each is printed in ascending order of RSI.
C7_PartitionsAndOrder ==
    pc \in {"send", "done"} =>
        /\ \A k \in 1..Len(results) :
              /\ InSeq(results[k], report.oversold) <=> results[k].weekly_rsi < 3000
              /\ InSeq(results[k], report.approaching)
                    <=> (3000 <= results[k].weekly_rsi /\ results[k].weekly_rsi < 3500)
        /\ \A k \in 1..Len(report.oversold) :
              /\ InSeq(report.oversold[k], results)
              /\ ~InSeq(report.oversold[k], report.approaching)
        /\ \A k \in 1..Len(report.approaching) : InSeq(report.approaching[k], results)
        /\ NoDuplicates(report.oversold)
        /\ NoDuplicates(report.approaching)
        /\ SameElements(report.printed_oversold, report.oversold)
        /\ SameElements(report.printed_approaching, report.approaching)
        /\ Ascending(report.printed_oversold)
        /\ Ascending(report.printed_approaching)

\* Two oversold tickers scanned worst-last, and one at exactly 30.
C7_Witness ==
    /\ pc = "done"
    /\ Len(report.oversold) = 2
    /\ report.printed_oversold # report.oversold
    /\ \E k \in 1..Len(report.approaching) : report.approaching[k].weekly_rsi = 3000

\* The month January of year y is not before the month of the date f.
JanuaryAtOrBeyond(y, f) == y > f.year \/ (y = f.year /\ f.month = 1)

\* C8, as claimed: the suggested January is at or beyond the date 360 days
\* after the reference date, and the January a year earlier is not.
C8_NearestJanuary ==
    pc = "returned" =>
        LET floor == DateOf(now + MIN_DTE * TicksPerDay)
            year == ret[1].expiry_suggestion[2]
        IN  /\ JanuaryAtOrBeyond(year, floor)
            /\ ~JanuaryAtOrBeyond(year - 1, floor)

\* C9: the snap rule applied to a suggested (snapped) strike leaves it as it is.
C9_SnapIdempotent ==
    pc = "returned" => SnapStrike(ret[1].strike) = ret[1].strike

\* A strike above $50 that the snap rule has moved.
C9_Witness ==
    /\ pc = "returned"
    /\ ret[1].strike > 5000
    /\ ret[1].strike # RoundOtm(call.price) * 100

SameRecord(h1, h2, t) ==
    /\ t \in DOMAIN h1 <=> t \in DOMAIN h2
    /\ t \in DOMAIN h1 => h1[t] = h2[t]

\* C10: an iteration of the loop writes a ticker's record, with the time, RSI
\* and price of the scan, exactly when it puts the ticker into the alert
\* set, deletes it exactly when the ticker is seen with RSI above 40 and has
\* one, and leaves every other record as it is; the save writes the ledger
\* as the loop left it, and no other step touches the file.
C10_RecordFrame ==
    [][/\ pc = "loop" =>
           \A t \in AllTickers :
              LET seen == t = watchlist[i] /\ fetched'[i] # <<>>
                  d == fetched'[i][1]
              IN  /\ AlertedNow(t) =>
                        /\ seen
                        /\ t \in DOMAIN alert_history'
                        /\ alert_history'[t] = [date |-> isoformat(now),
                                                rsi |-> d.weekly_rsi,
                                                price |-> d.price]
                  /\ (seen /\ d.weekly_rsi > 4000) => t \notin DOMAIN alert_history'
                  /\ (~AlertedNow(t) /\ ~(seen /\ d.weekly_rsi > 4000))
                        => SameRecord(alert_history, alert_history', t)
       /\ (pc = "save" /\ pc' = "summary") => file'.data = alert_history
       /\ pc \notin {"loop", "save"} => file' = file]_vars

\* An oversold ticker is suppressed by the cooldown and its record stays.
C10_Witness ==
    /\ pc \in {"loop", "save"}
    /\ \E k \in 1..Len(fetched) :
          /\ fetched[k] # <<>>
          /\ fetched[k][1].weekly_rsi < 3000
          /\ watchlist[k] \notin AlertedTickers
          /\ watchlist[k] \in DOMAIN alert_history
          /\ alert_history[watchlist[k]] = file.data[watchlist[k]]

====
